---- MODULE Spec2Model ----
(***************************************************************************)
(* Model of timekeeper_server.py: the process-wide timer state, the cmd    *)
(* Socket.IO handler and the timer_loop advancement task.                  *)
(*                                                                         *)
(* Time is measured in clock units of 1/Res second, so that the float      *)
(* arithmetic of timer_loop (elapsed, remaining) and Python's int()        *)
(* truncation are computed exactly on integers.                            *)
(***************************************************************************)
EXTENDS Integers, Sequences, FiniteSets

VARIABLES
    state,              \* the dict `state`
    timer_task,         \* _timer_task: 0 = None, -1 = a task that is over, k > 0 = loops[k]
    start_wall,         \* _start_wall, in clock units
    elapsed_at_pause,   \* _elapsed_at_pause, in seconds (only whole values are ever stored)
    now,                \* the value time.time() returns, in clock units
    loops,              \* the timer_loop tasks that are scheduled or suspended: their positions
    out,                \* the payloads handed to sio.emit("state", ...) by the last step
    ev,                 \* the last step: which handler or task step ran, and whether it raised
    fired,              \* per bell: it has fired since the last reset / accepted set_total
    rearmed,            \* per bell: it has fired since reset / accepted set_total / its set_bell
    anchor              \* instant and elapsed_sec of the most recent accepted start / resume

vars == <<state, timer_task, start_wall, elapsed_at_pause, now, loops, out, ev,
          fired, rearmed, anchor>>

----------------------------------------------------------------------------
(* Bounds of the model *)

\* clock units per second
Res == 2
\* the clock is sampled in the first Window units from time 0 and from the moment
\* the first default bell is due
Window == 2
\* timer_loop tasks that may exist at once before start is held back
MaxLoops == 3

(* Program constants *)
SecPerMin == 60
DefaultTotalMinutes == 3
NumBells == 3

FirstBellAt == 60
Instants == (0..Window) \cup (FirstBellAt * Res..FirstBellAt * Res + Window)

----------------------------------------------------------------------------
(* Command payloads: a field is absent, a non-numeric string, or an integer *)

Absent == [tag |-> "absent", val |-> 0]
NonNumeric == [tag |-> "str", val |-> 0]
Num(n) == [tag |-> "int", val |-> n]

Data(action, minutes, seconds, index, count, enabled) ==
    [action |-> action, minutes |-> minutes, seconds |-> seconds,
     index |-> index, count |-> count, enabled |-> enabled]

\* data.get(key, default)
Get(data, key, default) ==
    IF data[key].tag = "absent" THEN Num(default) ELSE data[key]

\* int(v) raises ValueError on a non-numeric string
IntRaises(v) == v.tag = "str"
IntOf(v) == v.val

\* bool(v): a non-empty string is true, an integer is true unless 0
BoolOf(v) == IF v.tag = "int" THEN v.val # 0 ELSE TRUE

\* int(x) of a float x given in clock units: truncation toward zero
PyInt(x) == IF x >= 0 THEN x \div Res ELSE -((-x) \div Res)

----------------------------------------------------------------------------
(* Initial state: module level of timekeeper_server.py *)

Bell(enabled, at_sec, count, triggered) ==
    [enabled |-> enabled, at_sec |-> at_sec, count |-> count, triggered |-> triggered]

InitState ==
    [running |-> FALSE,
     paused |-> FALSE,
     total_sec |-> DefaultTotalMinutes * SecPerMin,
     remaining_sec |-> DefaultTotalMinutes * SecPerMin,
     elapsed_sec |-> 0,
     bells |-> << Bell(TRUE, FirstBellAt, 1, FALSE),
                  Bell(TRUE, 120, 2, FALSE),
                  Bell(TRUE, 180, 3, FALSE) >>,
     over |-> FALSE]

Event(op, raised) == [op |-> op, raised |-> raised]

Payload(st, has_fire_bells, fire_bells) ==
    [state |-> st, has_fire_bells |-> has_fire_bells, fire_bells |-> fire_bells]

\* broadcast_state(): sio.emit("state", state)
broadcast_state(st) == << Payload(st, FALSE, <<>>) >>

Init ==
    /\ state = InitState
    /\ timer_task = 0
    /\ start_wall = 0
    /\ elapsed_at_pause = 0
    /\ now = 0
    /\ loops = <<>>
    /\ out = <<>>
    /\ ev = Event("init", FALSE)
    /\ fired = [i \in 1..NumBells |-> FALSE]
    /\ rearmed = [i \in 1..NumBells |-> FALSE]
    /\ anchor = [wall |-> 0, offset |-> 0]

----------------------------------------------------------------------------
(* asyncio tasks running timer_loop *)

Remove(seq, k) == SubSeq(seq, 1, k - 1) \o SubSeq(seq, k + 1, Len(seq))

\* the reference _timer_task after loops[k] has left the sequence
Retarget(ref, k) == IF ref = k THEN -1 ELSE IF ref > k THEN ref - 1 ELSE ref

\* `if _timer_task: _timer_task.cancel()`: CancelledError is thrown into the task at
\* the await it is suspended in (or before its first step), so it runs no further line
\* mutant: the cancelled task keeps running
CancelLoopsNone(ls, ref) == ls

CancelLoops(ls, ref) == IF ref > 0 THEN Remove(ls, ref) ELSE ls
CancelRef(ref) == IF ref > 0 THEN -1 ELSE ref

\* `while state["running"] and not state["paused"]`
\* mutant: the loop condition without its negation
LoopConditionPaused(st) == st.running /\ st.paused

LoopCondition(st) == st.running /\ ~st.paused

----------------------------------------------------------------------------
(* cmd: action == "start" *)

StartState(st) ==
    IF ~st.running THEN [st EXCEPT !.running = TRUE, !.paused = FALSE]
    ELSE IF st.paused THEN [st EXCEPT !.paused = FALSE]
    ELSE st

StartAccepted(st) == ~st.running \/ st.paused

\* mutant: the resume branch keeps the old _start_wall
StartWallNoResume(st, t, wall) == IF ~st.running THEN t ELSE wall

\* _start_wall = time.time(), in both branches
StartWall(st, t, wall) == IF StartAccepted(st) THEN t ELSE wall

\* mutant: the offset restarts from 0 on a resume
StartOffsetZero(st, offset) == IF StartAccepted(st) THEN 0 ELSE offset

\* _elapsed_at_pause = state["elapsed_sec"], in both branches
StartOffset(st, offset) == IF StartAccepted(st) THEN st.elapsed_sec ELSE offset

cmd_start ==
    /\ Len(loops) < MaxLoops
    /\ state' = StartState(state)
    /\ start_wall' = StartWall(state, now, start_wall)
    /\ elapsed_at_pause' = StartOffset(state, elapsed_at_pause)
    /\ IF StartAccepted(state)
       THEN /\ loops' = Append(loops, "start")
            /\ timer_task' = Len(loops) + 1
            /\ anchor' = [wall |-> now, offset |-> state.elapsed_sec]
       ELSE UNCHANGED <<loops, timer_task, anchor>>
    /\ out' = broadcast_state(state')
    /\ ev' = Event("start", FALSE)
    /\ UNCHANGED <<now, fired, rearmed>>

(* cmd: action == "pause" *)

\* mutant: the running test of line 166 left out
PauseAcceptedWhenIdle(st) == ~st.paused

PauseAccepted(st) == st.running /\ ~st.paused

PauseState(st) == IF PauseAccepted(st) THEN [st EXCEPT !.paused = TRUE] ELSE st

\* mutant: lines 169-170 left out
PauseLoopsNoCancel(st, ls, ref) == ls

PauseLoops(st, ls, ref) == IF PauseAccepted(st) THEN CancelLoops(ls, ref) ELSE ls

cmd_pause ==
    /\ state' = PauseState(state)
    /\ elapsed_at_pause' = IF PauseAccepted(state) THEN state.elapsed_sec ELSE elapsed_at_pause
    /\ loops' = PauseLoops(state, loops, timer_task)
    /\ timer_task' = IF PauseAccepted(state) THEN CancelRef(timer_task) ELSE timer_task
    /\ out' = broadcast_state(state')
    /\ ev' = Event("pause", FALSE)
    /\ UNCHANGED <<start_wall, now, fired, rearmed, anchor>>

(* cmd: action == "reset" *)

ClearTriggered(bells) == [i \in 1..Len(bells) |-> [bells[i] EXCEPT !.triggered = FALSE]]

\* mutant: the loop of lines 179-180 left out
ResetStateKeepsTriggered(st) ==
    [st EXCEPT !.running = FALSE,
               !.paused = FALSE,
               !.elapsed_sec = 0,
               !.remaining_sec = st.total_sec,
               !.over = FALSE]

ResetState(st) ==
    [st EXCEPT !.running = FALSE,
               !.paused = FALSE,
               !.elapsed_sec = 0,
               !.remaining_sec = st.total_sec,
               !.over = FALSE,
               !.bells = ClearTriggered(st.bells)]

cmd_reset ==
    /\ state' = ResetState(state)
    /\ elapsed_at_pause' = 0
    /\ loops' = CancelLoops(loops, timer_task)
    /\ timer_task' = CancelRef(timer_task)
    /\ out' = broadcast_state(state')
    /\ ev' = Event("reset", FALSE)
    /\ fired' = [i \in 1..NumBells |-> FALSE]
    /\ rearmed' = [i \in 1..NumBells |-> FALSE]
    /\ UNCHANGED <<start_wall, now, anchor>>

(* cmd: action == "set_total" *)

\* mutant: the running test of line 186 left out
SetTotalAlwaysAllowed(st) == TRUE

SetTotalAllowed(st) == ~st.running \/ st.paused

\* the int() conversions of lines 187-188 are only reached when the command is allowed
SetTotalRaises(st, data) ==
    /\ SetTotalAllowed(st)
    /\ \/ IntRaises(Get(data, "minutes", DefaultTotalMinutes))
       \/ IntRaises(Get(data, "seconds", 0))

SetTotalValue(data) ==
    IntOf(Get(data, "minutes", DefaultTotalMinutes)) * SecPerMin + IntOf(Get(data, "seconds", 0))

SetTotalApplies(st, data) ==
    SetTotalAllowed(st) /\ ~SetTotalRaises(st, data) /\ SetTotalValue(data) > 0

\* mutant: the loop of lines 195-196 left out
SetTotalStateKeepsTriggered(st, total) ==
    [st EXCEPT !.total_sec = total,
               !.remaining_sec = total,
               !.elapsed_sec = 0]

SetTotalState(st, total) ==
    [st EXCEPT !.total_sec = total,
               !.remaining_sec = total,
               !.elapsed_sec = 0,
               !.bells = ClearTriggered(st.bells)]

cmd_set_total(data) ==
    /\ state' = IF SetTotalApplies(state, data)
                THEN SetTotalState(state, SetTotalValue(data)) ELSE state
    /\ elapsed_at_pause' = IF SetTotalApplies(state, data) THEN 0 ELSE elapsed_at_pause
    /\ fired' = IF SetTotalApplies(state, data) THEN [i \in 1..NumBells |-> FALSE] ELSE fired
    /\ rearmed' = IF SetTotalApplies(state, data) THEN [i \in 1..NumBells |-> FALSE] ELSE rearmed
    /\ out' = IF SetTotalRaises(state, data) THEN <<>> ELSE broadcast_state(state')
    /\ ev' = Event("set_total", SetTotalRaises(state, data))
    /\ UNCHANGED <<timer_task, start_wall, now, loops, anchor>>

(* cmd: action == "set_bell" *)

SetBellIndexOk(st, data) ==
    /\ ~IntRaises(Get(data, "index", 0))
    /\ 0 <= IntOf(Get(data, "index", 0))
    /\ IntOf(Get(data, "index", 0)) < Len(st.bells)

\* minutes and seconds are converted only after the index test has passed
SetBellRaises(st, data) ==
    \/ IntRaises(Get(data, "index", 0))
    \/ /\ SetBellIndexOk(st, data)
       /\ \/ IntRaises(Get(data, "minutes", 0))
          \/ IntRaises(Get(data, "seconds", 0))

SetBellApplies(st, data) == SetBellIndexOk(st, data) /\ ~SetBellRaises(st, data)

\* mutant: line 205 left out
SetBellStateKeepsTriggered(st, idx, at_sec, enabled) ==
    [st EXCEPT !.bells[idx + 1] = [@ EXCEPT !.at_sec = at_sec, !.enabled = enabled]]

SetBellState(st, idx, at_sec, enabled) ==
    [st EXCEPT !.bells[idx + 1] =
        [@ EXCEPT !.at_sec = at_sec, !.enabled = enabled, !.triggered = FALSE]]

cmd_set_bell(data) ==
    /\ state' = IF SetBellApplies(state, data)
                THEN SetBellState(state,
                                  IntOf(Get(data, "index", 0)),
                                  IntOf(Get(data, "minutes", 0)) * SecPerMin
                                      + IntOf(Get(data, "seconds", 0)),
                                  BoolOf(Get(data, "enabled", 1)))
                ELSE state
    /\ rearmed' = IF SetBellApplies(state, data)
                  THEN [rearmed EXCEPT ![IntOf(Get(data, "index", 0)) + 1] = FALSE]
                  ELSE rearmed
    /\ out' = IF SetBellRaises(state, data) THEN <<>> ELSE broadcast_state(state')
    /\ ev' = Event("set_bell", SetBellRaises(state, data))
    /\ UNCHANGED <<timer_task, start_wall, elapsed_at_pause, now, loops, fired, anchor>>

(* cmd: action == "manual_bell" *)

ManualBellRaises(data) == IntRaises(Get(data, "count", 1))

\* mutant: the return of line 210 left out, so the trailing broadcast follows
ManualBellOutThenBroadcast(st, data) ==
    IF IntRaises(Get(data, "count", 1)) THEN <<>>
    ELSE << Payload(st, TRUE, << IntOf(Get(data, "count", 1)) >>) >> \o broadcast_state(st)

\* sio.emit("state", {**state, "fire_bells": [count]}); return
ManualBellOut(st, data) ==
    IF ManualBellRaises(data) THEN <<>>
    ELSE << Payload(st, TRUE, << IntOf(Get(data, "count", 1)) >>) >>

cmd_manual_bell(data) ==
    /\ out' = ManualBellOut(state, data)
    /\ ev' = Event("manual_bell", ManualBellRaises(data))
    /\ UNCHANGED <<state, timer_task, start_wall, elapsed_at_pause, now, loops,
                   fired, rearmed, anchor>>

(* cmd: any other action, or none *)

cmd_unknown ==
    /\ out' = broadcast_state(state)
    /\ ev' = Event("unknown", FALSE)
    /\ UNCHANGED <<state, timer_task, start_wall, elapsed_at_pause, now, loops,
                   fired, rearmed, anchor>>

----------------------------------------------------------------------------
(* timer_loop *)

\* elapsed = _elapsed_at_pause + (now - _start_wall), in clock units
Elapsed(offset, t, wall) == offset * Res + (t - wall)

\* remaining = state["total_sec"] - elapsed, in clock units
Remaining(total, elapsed) == total * Res - elapsed

\* mutant: the `not bell["triggered"]` test left out
BellFiresIgnoringTriggered(bell, elapsed) ==
    bell.enabled /\ PyInt(elapsed) >= bell.at_sec

\* mutant: the `bell["enabled"]` test left out
BellFiresIgnoringEnabled(bell, elapsed) ==
    ~bell.triggered /\ PyInt(elapsed) >= bell.at_sec

\* mutant: > for >=
BellFiresStrictlyAfter(bell, elapsed) ==
    bell.enabled /\ ~bell.triggered /\ PyInt(elapsed) > bell.at_sec

BellFires(bell, elapsed) ==
    bell.enabled /\ ~bell.triggered /\ PyInt(elapsed) >= bell.at_sec

\* bells_fired, appended to in enumeration order, from bell i on
RECURSIVE BellsFiredFrom(_, _, _)
BellsFiredFrom(bells, elapsed, i) ==
    IF i > Len(bells) THEN <<>>
    ELSE (IF BellFires(bells[i], elapsed) THEN << bells[i].count >> ELSE <<>>)
         \o BellsFiredFrom(bells, elapsed, i + 1)

\* mutant: bells_fired.insert(0, ...) for bells_fired.append(...)
BellsFiredReversed(bells, elapsed) ==
    LET f == BellsFiredFrom(bells, elapsed, 1)
    IN [j \in 1..Len(f) |-> f[Len(f) + 1 - j]]

BellsFired(bells, elapsed) == BellsFiredFrom(bells, elapsed, 1)

\* mutant: triggered assigned the outcome of the test instead of being set
TickBellsAssign(bells, elapsed) ==
    [i \in 1..Len(bells) |-> [bells[i] EXCEPT !.triggered = BellFires(bells[i], elapsed)]]

TickBells(bells, elapsed) ==
    [i \in 1..Len(bells) |->
        IF BellFires(bells[i], elapsed) THEN [bells[i] EXCEPT !.triggered = TRUE]
        ELSE bells[i]]

TickState(st, elapsed) ==
    [st EXCEPT !.elapsed_sec = PyInt(elapsed),
               !.remaining_sec = PyInt(Remaining(st.total_sec, elapsed)),
               !.over = Remaining(st.total_sec, elapsed) < 0,
               !.bells = TickBells(st.bells, elapsed)]

\* payload = dict(state); payload["fire_bells"] = bells_fired when it is not empty
TickOut(st, bells_fired) == << Payload(st, bells_fired # <<>>, bells_fired) >>

\* the task's first step, and its step after an emit has returned: the while test
loop_check(k) ==
    /\ loops[k] \in {"start", "emit"}
    /\ IF LoopCondition(state)
       THEN /\ loops' = [loops EXCEPT ![k] = "sleep"]
            /\ UNCHANGED timer_task
       ELSE /\ loops' = Remove(loops, k)
            /\ timer_task' = Retarget(timer_task, k)
    /\ out' = <<>>
    /\ ev' = Event("loop_check", FALSE)
    /\ UNCHANGED <<state, start_wall, elapsed_at_pause, now, fired, rearmed, anchor>>

\* the sleep has returned: lines 107-127, up to the await of sio.emit
loop_tick(k) ==
    /\ loops[k] = "sleep"
    /\ LET elapsed == Elapsed(elapsed_at_pause, now, start_wall) IN
        /\ state' = TickState(state, elapsed)
        /\ out' = TickOut(state', BellsFired(state.bells, elapsed))
        /\ fired' = [i \in 1..NumBells |-> fired[i] \/ BellFires(state.bells[i], elapsed)]
        /\ rearmed' = [i \in 1..NumBells |-> rearmed[i] \/ BellFires(state.bells[i], elapsed)]
    /\ loops' = [loops EXCEPT ![k] = "emit"]
    /\ ev' = Event("tick", FALSE)
    /\ UNCHANGED <<timer_task, start_wall, elapsed_at_pause, now, anchor>>

----------------------------------------------------------------------------
(* The environment: the clock, and the commands the clients send *)

advance(t) ==
    /\ t > now
    /\ now' = t
    /\ out' = <<>>
    /\ ev' = Event("advance", FALSE)
    /\ UNCHANGED <<state, timer_task, start_wall, elapsed_at_pause, loops,
                   fired, rearmed, anchor>>

\* the payloads of the set_total commands: {minutes, seconds}
SetTotalData ==
    {Data("set_total", m[1], m[2], Absent, Absent, Absent) :
        m \in {<<Absent, Absent>>, <<Num(0), Num(1)>>, <<Num(0), Absent>>,
               <<Num(0), Num(-1)>>, <<NonNumeric, Absent>>, <<Num(0), NonNumeric>>}}

\* the payloads of the set_bell commands: {index, minutes, seconds, enabled}
SetBellData ==
    {Data("set_bell", m[2], m[3], m[1], Absent, m[4]) :
        m \in {<<Absent, Absent, Absent, Absent>>,
               <<Num(0), Num(1), Absent, Absent>>,
               <<Num(1), Absent, Num(1), Absent>>,
               <<Num(1), Num(0), Num(-1), Num(0)>>,
               <<Num(-1), Absent, Num(1), Absent>>,
               <<Num(NumBells), NonNumeric, Num(1), Absent>>,
               <<NonNumeric, Absent, Absent, Absent>>,
               <<Num(1), NonNumeric, Absent, Absent>>,
               <<Num(1), Absent, NonNumeric, Absent>>}}

\* the payloads of the manual_bell commands: {count}
ManualBellData ==
    {Data("manual_bell", Absent, Absent, Absent, c, Absent) :
        c \in {Absent, Num(2), NonNumeric}}

Next ==
    \/ cmd_start
    \/ cmd_pause
    \/ cmd_reset
    \/ \E data \in SetTotalData : cmd_set_total(data)
    \/ \E data \in SetBellData : cmd_set_bell(data)
    \/ \E data \in ManualBellData : cmd_manual_bell(data)
    \/ cmd_unknown
    \/ \E k \in 1..Len(loops) : loop_check(k)
    \/ \E k \in 1..Len(loops) : loop_tick(k)
    \/ \E t \in Instants : advance(t)

Spec == Init /\ [][Next]_vars

----------------------------------------------------------------------------
(* The timer left to run: the task is scheduled again and again by the event loop,
   and the clock goes on to read later times *)

\* clock units the last sampled instant lies past the default total
Horizon == 1

\* the instants the clock is sampled at: the default bell thresholds, and one past
\* the default total
LastInstant == DefaultTotalMinutes * SecPerMin * Res + Horizon
LiveInstants == {0, FirstBellAt * Res, 2 * FirstBellAt * Res, LastInstant}

\* set_total to 1 second
LiveSetTotalData == {Data("set_total", Num(0), Num(1), Absent, Absent, Absent)}

\* set_bell: the second bell disabled at 0 s, the first bell moved to 1 s
LiveSetBellData ==
    {Data("set_bell", Num(0), Num(0), Num(1), Absent, Num(0)),
     Data("set_bell", Absent, Num(1), Num(0), Absent, Absent)}

\* one step of a live timer_loop task
LoopStep == \E k \in 1..Len(loops) : loop_check(k) \/ loop_tick(k)

\* the clock read later
ClockStep == \E t \in LiveInstants : advance(t)

LiveNext ==
    \/ cmd_start
    \/ cmd_pause
    \/ cmd_reset
    \/ \E data \in LiveSetTotalData : cmd_set_total(data)
    \/ \E data \in LiveSetBellData : cmd_set_bell(data)
    \/ LoopStep
    \/ ClockStep

\* the event loop resumes a task whose sleep or emit has completed; time passes
LiveSpec == Init /\ [][LiveNext]_vars /\ WF_vars(LoopStep) /\ WF_vars(ClockStep)

----------------------------------------------------------------------------
(* Properties *)

Bells == 1..NumBells

\* the payload of the last step's only emit
Sent == out[1]

\* C1: in every reachable state remaining_sec = total_sec - elapsed_sec, also after a
\* tick at a non-whole-second instant
C1_RemainingIsTotalMinusElapsed ==
    state.remaining_sec = state.total_sec - state.elapsed_sec

\* C2: in every reachable state over is true exactly when remaining_sec < 0
C2_OverIffRemainingNegative ==
    state.over <=> (state.remaining_sec < 0)

\* C5: a set_total, set_bell or manual_bell command with absent or non-numeric
\* numeric fields never raises, and its broadcast is sent
C5_MalformedFieldsNeverRaise ==
    ev.op \in {"set_total", "set_bell", "manual_bell"} => ~ev.raised /\ Len(out) = 1

\* bell i's count is in the automatic fire_bells batch of the tick this step takes
FiresInStep(i) ==
    /\ ev'.op = "tick"
    /\ \E j \in 1..Len(out'[1].fire_bells) : out'[1].fire_bells[j] = state.bells[i].count

\* C3 (as claimed): between two run-cycle boundaries (reset, accepted set_total) a
\* bell's count enters an automatic fire_bells batch at most once, whatever start,
\* pause, set_bell, manual_bell and ticks are interleaved
C3_OncePerRunCycle ==
    [][\A i \in Bells : FiresInStep(i) => ~fired[i]]_vars

\* C3 (amended): a bell's count enters an automatic fire_bells batch at most once
\* between two consecutive re-armings of that bell, where reset, an applied set_total
\* and a set_bell applied to that bell re-arm it
C3_OncePerArming ==
    [][\A i \in Bells : FiresInStep(i) => ~rearmed[i]]_vars

\* C3 witness: a tick has just fired, alone, a bell that set_bell had configured
C3_Witness ==
    /\ ev.op = "tick"
    /\ Len(out) = 1
    /\ \E i \in Bells : state.bells[i].triggered /\ state.bells[i].at_sec = 1
                        /\ Sent.fire_bells = << state.bells[i].count >>

\* a bell's triggered flag goes from true to false in this step
Cleared(i) == state.bells[i].triggered /\ ~state'.bells[i].triggered

\* C4 (as claimed): only reset and set_total change a triggered flag from true to false
C4_ClearedOnlyByResetOrSetTotal ==
    [][\A i \in Bells : Cleared(i) => ev'.op \in {"reset", "set_total"}]_vars

\* C4 (amended): a triggered flag goes from true to false only by reset, by set_total,
\* or by a set_bell applied to that very bell; start, pause, manual_bell, unknown
\* actions, set_bell on another bell and engine ticks leave it true
C4_ClearedOnlyByResetSetTotalOrOwnSetBell ==
    [][\A i \in Bells : Cleared(i) =>
            \/ ev'.op \in {"reset", "set_total"}
            \/ /\ ev'.op = "set_bell"
               /\ \A k \in Bells \ {i} : state'.bells[k] = state.bells[k]]_vars

\* C4 witness: a bell triggered by a tick is still triggered after a pause
C4_Witness ==
    /\ ev.op = "pause"
    /\ state.paused
    /\ \E i \in Bells : state.bells[i].triggered

\* the parts of the program's state a command can change
Untouched ==
    UNCHANGED <<state, timer_task, start_wall, elapsed_at_pause, loops>>

\* C6: set_total while running and not paused, set_bell with an integer index outside
\* 0..bell count-1, and an unrecognized action leave the whole timer state unchanged
\* and are followed by exactly one full-state broadcast
C6_IgnoredCommandsOnlyBroadcast ==
    [][/\ (ev'.op = "set_total" /\ state.running /\ ~state.paused)
            => Untouched /\ out' = << Payload(state, FALSE, <<>>) >>
       /\ ev'.op = "set_bell" =>
            \A data \in SetBellData :
                (/\ data.index.tag = "int"
                 /\ (data.index.val < 0 \/ data.index.val >= NumBells)
                 /\ cmd_set_bell(data))
                => Untouched /\ out' = << Payload(state, FALSE, <<>>) >>
       /\ ev'.op = "unknown"
            => Untouched /\ out' = << Payload(state, FALSE, <<>>) >>]_vars

\* C6 witness: a set_total arrived while the timer was running with the default total
C6_Witness ==
    /\ ev.op = "set_total"
    /\ state.running /\ ~state.paused
    /\ state.total_sec = DefaultTotalMinutes * SecPerMin
    /\ out = << Payload(state, FALSE, <<>>) >>

\* C7: at every tick elapsed_sec is the whole-second part of offset + (now - anchor),
\* anchor and offset being the instant and the elapsed_sec of the latest start or
\* resume; a resume leaves elapsed_sec where the pause froze it
C7_ElapsedFromAnchor ==
    [][/\ ev'.op = "tick" =>
            state'.elapsed_sec = (anchor'.offset * Res + (now' - anchor'.wall)) \div Res
       /\ (ev'.op = "start" /\ state.paused) =>
            /\ state'.elapsed_sec = state.elapsed_sec
            /\ anchor' = [wall |-> now, offset |-> state.elapsed_sec]]_vars

\* C7 witness: a tick half a second after a resume that came a minute after the
\* first start, the pause having frozen elapsed_sec at 1: it still reports 1
C7_Witness ==
    /\ ev.op = "tick"
    /\ anchor.offset = 1
    /\ anchor.wall >= FirstBellAt * Res
    /\ now > anchor.wall
    /\ state.elapsed_sec = 1

\* the count a manual_bell payload asks for
RequestedCount(data) == IF data.count.tag = "absent" THEN 1 ELSE data.count.val

\* C8: manual_bell(count=c) makes exactly one delivery, the full state plus
\* fire_bells=[c], with no trailing broadcast, and changes nothing of the timer
C8_ManualBellOneDelivery ==
    [][/\ (ev'.op = "manual_bell" /\ ~ev'.raised) =>
            /\ Untouched
            /\ Len(out') = 1
            /\ out'[1].state = state
            /\ out'[1].has_fire_bells
       /\ ev'.op = "manual_bell" =>
            \A data \in ManualBellData :
                (data.count.tag # "str" /\ cmd_manual_bell(data)) =>
                    out'[1].fire_bells = << RequestedCount(data) >>]_vars

\* C8 witness: manual_bell(count=2) delivered while a bell is triggered and the timer
\* is paused
C8_Witness ==
    /\ ev.op = "manual_bell"
    /\ out = << Payload(state, TRUE, <<2>>) >>
    /\ state.paused
    /\ \E i \in Bells : state.bells[i].triggered

\* C9: on a tick every enabled, untriggered bell with at_sec <= elapsed_sec becomes
\* triggered and has its count in that tick's fire_bells; an untriggered bell with
\* at_sec > elapsed_sec stays untriggered and out of fire_bells
C9_BellFiresWhenDue ==
    [][ev'.op = "tick" =>
        \A i \in Bells :
            /\ (/\ state.bells[i].enabled
                /\ ~state.bells[i].triggered
                /\ state'.elapsed_sec >= state.bells[i].at_sec)
               => state'.bells[i].triggered /\ FiresInStep(i)
            /\ (~state.bells[i].triggered /\ state.bells[i].at_sec > state'.elapsed_sec)
               => ~state'.bells[i].triggered /\ ~FiresInStep(i)]_vars

\* C9 witness: the default configuration at elapsed 60: fire_bells = [1], the bells
\* at 120 and 180 untriggered
C9_Witness ==
    /\ ev.op = "tick"
    /\ state.elapsed_sec = FirstBellAt
    /\ state.bells = << Bell(TRUE, 60, 1, TRUE), Bell(TRUE, 120, 2, FALSE),
                        Bell(TRUE, 180, 3, FALSE) >>
    /\ out = << Payload(state, TRUE, <<1>>) >>

\* the bells due in a state at elapsed second e, in configuration order
Due(st, e) ==
    SelectSeq([i \in Bells |-> i],
              LAMBDA i : st.bells[i].enabled /\ ~st.bells[i].triggered
                         /\ st.bells[i].at_sec <= e)

\* C10: all the bells due on a tick fire in that tick's single broadcast, fire_bells
\* lists their counts in configuration order, and a tick on which no bell fires sends
\* a snapshot without fire_bells
C10_BatchInConfigurationOrder ==
    [][ev'.op = "tick" =>
        LET due == Due(state, state'.elapsed_sec) IN
            /\ Len(out') = 1
            /\ out'[1].state = state'
            /\ out'[1].fire_bells = [j \in 1..Len(due) |-> state.bells[due[j]].count]
            /\ out'[1].has_fire_bells <=> (due # <<>>)
            /\ \A j \in 1..Len(due) : state'.bells[due[j]].triggered]_vars

\* C10 witness: two bells fired together, the lower index first
C10_Witness ==
    /\ ev.op = "tick"
    /\ out = << Payload(state, TRUE, <<1, 2>>) >>

\* C11: reset, in any reachable state, yields running = paused = false, elapsed_sec = 0,
\* remaining_sec = total_sec, over = false, every triggered = false and no live
\* timer_loop, and leaves total_sec and each bell's enabled, at_sec and count alone; a
\* second reset changes nothing; a start after it counts again from elapsed 0
C11_ResetYieldsIdleZero ==
    [][/\ ev'.op = "reset" =>
            /\ state' = [running |-> FALSE,
                         paused |-> FALSE,
                         total_sec |-> state.total_sec,
                         remaining_sec |-> state.total_sec,
                         elapsed_sec |-> 0,
                         bells |-> [i \in Bells |->
                                       Bell(state.bells[i].enabled, state.bells[i].at_sec,
                                            state.bells[i].count, FALSE)],
                         over |-> FALSE]
            /\ loops' = <<>>
            /\ elapsed_at_pause' = 0
            /\ out' = << Payload(state', FALSE, <<>>) >>
       /\ (ev'.op = "reset" /\ ev.op = "reset") =>
            UNCHANGED <<state, timer_task, start_wall, elapsed_at_pause, loops>>
       /\ (ev'.op = "start" /\ ev.op = "reset") =>
            /\ state'.elapsed_sec = 0
            /\ elapsed_at_pause' = 0
            /\ start_wall' = now]_vars

\* C11 witness: a reset a minute or more after the start at time 0: the timer_loop
\* task that start created is over, the timer is Idle at elapsed 0, no bell triggered
C11_Witness ==
    /\ ev.op = "reset"
    /\ now >= FirstBellAt * Res
    /\ anchor.wall = 0
    /\ timer_task = -1
    /\ state.bells[1] = Bell(TRUE, FirstBellAt, 1, FALSE)
    /\ ~state.running /\ state.elapsed_sec = 0

Idle(st) == ~st.running /\ ~st.paused
Running(st) == st.running /\ ~st.paused
Paused(st) == st.running /\ st.paused

\* C12: (running, paused) is always Idle, Running or Paused and changes only by start
\* from Idle or Paused (to Running), pause from Running (to Paused) and reset (to
\* Idle); start while Running and pause while Idle or Paused change nothing
C12_StateMachine ==
    [][/\ Idle(state') \/ Running(state') \/ Paused(state')
       /\ ev'.op = "start" => Running(state')
       /\ ev'.op = "pause" => IF Running(state) THEN Paused(state')
                              ELSE state'.running = state.running
                                   /\ state'.paused = state.paused
       /\ ev'.op = "reset" => Idle(state')
       /\ ev'.op \notin {"start", "pause", "reset"} =>
            state'.running = state.running /\ state'.paused = state.paused
       /\ ((ev'.op = "start" /\ Running(state)) \/ (ev'.op = "pause" /\ ~Running(state))) =>
            UNCHANGED <<state, timer_task, start_wall, elapsed_at_pause, loops, anchor>>]_vars

\* C12 witness: a start has taken the timer from Paused, at elapsed_sec >= 1, to Running
C12_Witness ==
    /\ ev.op = "start"
    /\ Running(state)
    /\ anchor.wall = now
    /\ anchor.offset >= 1

\* the total a set_total payload with integer or absent fields asks for
RequestedTotal(data) ==
    (IF data.minutes.tag = "absent" THEN 3 ELSE data.minutes.val) * 60
    + (IF data.seconds.tag = "absent" THEN 0 ELSE data.seconds.val)

\* a set_total step with integer or absent fields, taken while Idle or Paused
AcceptedSetTotal(data) ==
    /\ ev'.op = "set_total"
    /\ ~state.running \/ state.paused
    /\ data.minutes.tag # "str" /\ data.seconds.tag # "str"
    /\ cmd_set_total(data)

\* what the claim says an accepted set_total leaves
SetTotalDone(data) ==
    /\ state'.total_sec = RequestedTotal(data)
    /\ state'.elapsed_sec = 0
    /\ state'.remaining_sec = state'.total_sec
    /\ \A i \in Bells : ~state'.bells[i].triggered

\* C13 (as claimed): an accepted set_total with any minutes and seconds, a total of 0
\* included, leaves total_sec = minutes*60 + seconds, elapsed_sec = 0, remaining_sec =
\* total_sec and every triggered = false
C13_SetTotalAnyTotal ==
    [][\A data \in SetTotalData : AcceptedSetTotal(data) => SetTotalDone(data)]_vars

\* C13 (amended): an accepted set_total whose minutes*60 + seconds is greater than 0
\* leaves total_sec = minutes*60 + seconds, elapsed_sec = 0, remaining_sec = total_sec
\* and every triggered = false; one whose total is 0 or less changes nothing
C13_SetTotalPositiveTotal ==
    [][\A data \in SetTotalData : AcceptedSetTotal(data) =>
            IF RequestedTotal(data) > 0 THEN SetTotalDone(data)
            ELSE UNCHANGED <<state, timer_task, start_wall, elapsed_at_pause, loops>>]_vars

\* C13 witness: a set_total of 1 second applied while Paused, after time had passed
C13_Witness ==
    /\ ev.op = "set_total"
    /\ Paused(state)
    /\ now > 0
    /\ state.total_sec = 1 /\ state.remaining_sec = 1 /\ state.elapsed_sec = 0

\* C14: in every reachable state a triggered bell has elapsed_sec >= at_sec
C14_TriggeredOnlyWhenDue ==
    \A i \in Bells : state.bells[i].triggered => state.elapsed_sec >= state.bells[i].at_sec

\* C14 witness: a bell triggered at the very second of its threshold, the timer then
\* paused and resumed
C14_Witness ==
    /\ ev.op = "start"
    /\ anchor.offset = 1
    /\ \E i \in Bells : state.bells[i].triggered /\ state.bells[i].at_sec = 1
                        /\ state.elapsed_sec = 1

\* C15: in every reachable state total_sec >= 0, elapsed_sec >= 0, every bell's
\* at_sec >= 0 and count >= 1, and there are 3 bells
C15_FieldRanges ==
    /\ state.total_sec >= 0
    /\ state.elapsed_sec >= 0
    /\ Len(state.bells) = 3
    /\ \A i \in Bells : state.bells[i].at_sec >= 0 /\ state.bells[i].count >= 1

\* the timer_loop results: what only a tick writes
TickResults(st) ==
    <<st.elapsed_sec, st.remaining_sec, st.over, [i \in Bells |-> st.bells[i].triggered]>>

\* C16: no engine tick is applied after a pause or reset and before the next start:
\* every tick is taken with the timer Running, by the task the latest start created,
\* and while the timer is not Running only commands change the tick results
C16_NoTickAfterPauseOrReset ==
    [][/\ ev'.op = "tick" =>
            /\ Running(state)
            /\ timer_task > 0
            /\ loops[timer_task] = "sleep"
            /\ loops'[timer_task] = "emit"
       /\ (~Running(state) /\ TickResults(state') # TickResults(state)) =>
            ev'.op \in {"reset", "set_total", "set_bell"}]_vars

\* C16 witness: the timer was paused while the task awaited its emit and resumed at
\* the same instant; the one task there is now is the new one, about to start
C16_Witness ==
    /\ ev.op = "start"
    /\ anchor.wall = now
    /\ anchor.offset = 1
    /\ start_wall = now
    /\ state.elapsed_sec * Res = now
    /\ loops = << "start" >>

\* C17: at most one timer_loop task is live, and one is live exactly when the timer is
\* Running
C17_OneLoopIffRunning ==
    /\ Len(loops) <= 1
    /\ Len(loops) = 1 <=> Running(state)
    /\ Running(state) => timer_task = 1

\* C17 witness: the task of a resumed timer, after start, pause and start, is live
\* and awaits its emit
C17_Witness ==
    /\ loops = << "emit" >>
    /\ Running(state)
    /\ anchor.offset >= 1
    /\ anchor.wall > 0

\* C18: elapsed_sec never decreases from one state to the next except by reset or a
\* set_total, which set it to 0
C18_ElapsedMonotone ==
    [][state'.elapsed_sec < state.elapsed_sec =>
            ev'.op \in {"reset", "set_total"} /\ state'.elapsed_sec = 0]_vars

\* C18 witness: a tick after a resume reports more than the value frozen at the pause
C18_Witness ==
    /\ ev.op = "tick"
    /\ anchor.offset >= 1
    /\ state.elapsed_sec > anchor.offset

\* C19: in every reachable state a triggered bell is enabled
C19_TriggeredOnlyIfEnabled ==
    \A i \in Bells : state.bells[i].triggered => state.bells[i].enabled

\* C19 witness: a tick has passed over a disabled bell whose threshold was reached,
\* and fired another one
C19_Witness ==
    /\ ev.op = "tick"
    /\ Len(out) = 1 /\ Sent.has_fire_bells
    /\ \E i \in Bells : /\ ~state.bells[i].enabled
                        /\ ~state.bells[i].triggered
                        /\ state.bells[i].at_sec <= state.elapsed_sec

\* the sampled clock reaches far enough for the run anchored at the latest start: at
\* the last instant the elapsed time is past the total and every enabled threshold
HorizonSuffices ==
    LET elapsed == Elapsed(elapsed_at_pause, LastInstant, start_wall) IN
        /\ Remaining(state.total_sec, elapsed) < 0
        /\ \A i \in Bells : state.bells[i].enabled => PyInt(elapsed) >= state.bells[i].at_sec

C20_Interrupted == ev.op \in {"pause", "reset", "set_total", "set_bell"}

\* every enabled bell is triggered and was sent in a fire_bells batch since it was
\* armed, and over is true
C20_Goal ==
    /\ \A i \in Bells : state.bells[i].enabled => state.bells[i].triggered /\ rearmed[i]
    /\ state.over

\* C20: with the task scheduled fairly and the clock advancing, a Running timer whose
\* run fits the sampled clock leads to every enabled bell triggered and broadcast and
\* over true, unless a pause, reset, set_total or set_bell is issued
C20_EventuallyAllBellsAndOver ==
    (Running(state) /\ HorizonSuffices) ~> (C20_Goal \/ C20_Interrupted)

\* C20 witness: an uninterrupted tick of the default configuration after the total has
\* made every bell triggered and over true
C20_Witness ==
    /\ ev.op = "tick"
    /\ Running(state)
    /\ HorizonSuffices
    /\ C20_Goal
    /\ state.total_sec = DefaultTotalMinutes * SecPerMin
    /\ \A i \in Bells : state.bells[i].enabled /\ fired[i]

====
